---- MODULE Spec2Model ----
(***************************************************************************)
(* Model of the chunk scheduling, caching and aggregation engine of        *)
(* dj-track-id: chunker.build_chunks, store.Store, the shazam_recognizer   *)
(* field extraction and pipeline.run_pipeline.                             *)
(*                                                                         *)
(* Times are integers counting 1/Unit seconds.  Numbers that the code      *)
(* holds as floats for confidences are integers counting 1/Den.            *)
(***************************************************************************)
EXTENDS Integers, Sequences, FiniteSets, TLC

VARIABLES
    cfg,        \* arguments of run_pipeline / build_chunks
    chunks,     \* run_pipeline.chunks, the planned windows
    store,      \* rows of the table chunk_cache
    run,        \* 1 for the first run over the source, 2 for the rerun
    main,       \* position of run_pipeline
    b,          \* loop variable b of the batch loop
    pc,         \* position of each process_one task
    sem,        \* value of the semaphore
    tracks,     \* run_pipeline.tracks, in dict insertion order
    rows,       \* run_pipeline.rows
    calls,      \* history: oracle calls begun per window in this run
    applied,    \* history: chunk responses that reached the aggregation
    last,       \* history: the response process_one handled last
    lastPut,    \* history: most recent payload given to put_chunk per key
    got         \* result of the last get_chunk call made through the API

vars == <<cfg, chunks, store, run, main, b, pc, sem, tracks, rows,
          calls, applied, last, lastPut, got>>

----------------------------------------------------------------------------
(* Bounds of the model *)

Unit == 2           \* time resolution: 1 second = Unit ticks
MaxDur == 6         \* largest duration tried, in seconds
MaxChunk == 3       \* largest chunk_sec tried
MaxOverlap == 3     \* largest overlap_sec tried
RunChunk == 3       \* chunk_seconds of the modelled runs
RunOverlap == 1     \* largest overlap_seconds of the modelled runs
MaxParallel == 2    \* largest max_parallel tried
MaxFaulty == 3      \* windows, counted from the end of the plan, that may fail

Den == 3 * 100      \* confidences are counted in 1/Den

Min(x, y) == IF x <= y THEN x ELSE y
Max(x, y) == IF x >= y THEN x ELSE y

----------------------------------------------------------------------------
(* Python values: None, str, numbers and dict (ordered key/value pairs) *)

PyVal(t, s, n, m) == [t |-> t, s |-> s, n |-> n, m |-> m]
None == PyVal("none", "", 0, <<>>)
Str(x) == PyVal("str", x, 0, <<>>)
Num(x) == PyVal("num", "", x, <<>>)
Dict(members) == PyVal("dict", "", 0, members)

\* bool(v)
truthy(v) ==
    CASE v.t = "none" -> FALSE
      [] v.t = "str" -> v.s # ""
      [] v.t = "num" -> v.n # 0
      [] v.t = "dict" -> v.m # <<>>

\* k in d
dict_has(d, k) == \E i \in 1..Len(d.m) : d.m[i][1] = k

\* d.get(k)
dict_get(d, k) ==
    IF dict_has(d, k)
    THEN d.m[CHOOSE i \in 1..Len(d.m) : d.m[i][1] = k][2]
    ELSE None

\* str(v)
py_str(v) == IF v.t = "str" THEN v.s ELSE ToString(v.n)

----------------------------------------------------------------------------
(* json.dumps / json.loads: a text is a sequence of tokens *)

Tok(k, s, n) == [k |-> k, s |-> s, n |-> n]

RECURSIVE dumps(_)
RECURSIVE dumps_members(_, _)

dumps_members(m, i) ==
    IF i > Len(m) THEN <<>>
    ELSE <<Tok("key", m[i][1], 0)>> \o dumps(m[i][2]) \o dumps_members(m, i + 1)

dumps(v) ==
    CASE v.t = "none" -> <<Tok("null", "", 0)>>
      [] v.t = "str" -> <<Tok("string", v.s, 0)>>
      [] v.t = "num" -> <<Tok("number", "", v.n)>>
      [] v.t = "dict" -> <<Tok("{", "", 0)>> \o dumps_members(v.m, 1) \o <<Tok("}", "", 0)>>

RECURSIVE parse_value(_, _)
RECURSIVE parse_members(_, _, _)

\* both return [v |-> the value read, i |-> index of the next token]
parse_members(text, i, acc) ==
    IF text[i].k = "}" THEN [v |-> Dict(acc), i |-> i + 1]
    ELSE LET r == parse_value(text, i + 1)
         IN parse_members(text, r.i, Append(acc, <<text[i].s, r.v>>))

parse_value(text, i) ==
    CASE text[i].k = "null" -> [v |-> None, i |-> i + 1]
      [] text[i].k = "string" -> [v |-> Str(text[i].s), i |-> i + 1]
      [] text[i].k = "number" -> [v |-> Num(text[i].n), i |-> i + 1]
      [] text[i].k = "{" -> parse_members(text, i + 1, <<>>)

loads(text) == parse_value(text, 1).v

----------------------------------------------------------------------------
(* store.Store *)

\* a value of the column shazam_json
SqlNull == [null |-> TRUE, text |-> <<>>]
SqlText(text) == [null |-> FALSE, text |-> text]

\* Store._init on a new database file
EmptyStore == {}

\* Store.get_chunk
get_chunk(st, chunk_key) ==
    LET found == {r \in st : r.chunk_key = chunk_key}
    IN IF found = {} THEN None
       ELSE LET row == CHOOSE r \in found : TRUE
            IN IF row.shazam_json.null \/ row.shazam_json.text = <<>>
               THEN None
               ELSE loads(row.shazam_json.text)

\* Store.put_chunk
put_chunk(st, chunk_key, shazam_obj) ==
    {r \in st : r.chunk_key # chunk_key} \cup
    {[chunk_key |-> chunk_key,
      shazam_json |-> IF truthy(shazam_obj) THEN SqlText(dumps(shazam_obj)) ELSE SqlNull]}

----------------------------------------------------------------------------
(* chunker.build_chunks *)

\* variants of the break test: a sliver is kept / a window of exactly 1 s is kept
too_short_sliver(d) == d <= 0
too_short_strict(d) == d < Unit

\* the break test of the loop
too_short(d) == d <= Unit

RECURSIVE build_loop(_, _, _, _, _)
build_loop(duration, chunk_sec, step, t, out) ==
    IF ~(t < duration) THEN out
    ELSE LET d == Min(chunk_sec * Unit, Max(0, duration - t))
         IN IF too_short(d) THEN out
            ELSE build_loop(duration, chunk_sec, step, t + step * Unit, Append(out, <<t, d>>))

build_chunks(duration, chunk_sec, overlap_sec) ==
    build_loop(duration, chunk_sec, Max(1, chunk_sec - overlap_sec), 0, <<>>)

----------------------------------------------------------------------------
(* shazam_recognizer *)

\* resp.get("track") if isinstance(resp, dict) else None
track_of(resp) == IF resp.t = "dict" THEN dict_get(resp, "track") ELSE None

TrackIdFields == <<"key", "id", "shazam_id", "shazamID">>
ConfidenceFields == <<"confidence", "score", "probability">>

RECURSIVE first_truthy(_, _, _)
first_truthy(track, fields, i) ==
    IF i > Len(fields) THEN None
    ELSE IF truthy(dict_get(track, fields[i])) THEN Str(py_str(dict_get(track, fields[i])))
    ELSE first_truthy(track, fields, i + 1)

extract_track_id(resp) ==
    IF ~truthy(track_of(resp)) THEN None
    ELSE first_truthy(track_of(resp), TrackIdFields, 1)

\* <<artist, title>>
extract_artist_title(resp) ==
    IF ~truthy(track_of(resp)) THEN <<None, None>>
    ELSE LET track == track_of(resp)
             title == dict_get(track, "title")
             artist == IF truthy(dict_get(track, "subtitle"))
                       THEN dict_get(track, "subtitle")
                       ELSE dict_get(track, "artist")
         IN <<artist, title>>

\* the scaling of one numeric figure v
\* variant: the figure is never scaled
normalize_asis(n) == n

normalize(n) == IF Den < n /\ n <= 100 * Den THEN n \div 100 ELSE n

RECURSIVE first_number(_, _, _)
first_number(track, fields, i) ==
    IF i > Len(fields) THEN None
    ELSE IF dict_get(track, fields[i]).t = "num"
         THEN Num(normalize(dict_get(track, fields[i]).n))
    ELSE first_number(track, fields, i + 1)

extract_confidence(resp) ==
    IF ~truthy(track_of(resp)) THEN None
    ELSE first_number(track_of(resp), ConfidenceFields, 1)

\* track.get(...) raises AttributeError when track is truthy and no dict
raises_attribute_error(resp) == truthy(track_of(resp)) /\ track_of(resp).t # "dict"

\* what Shazam.recognize can do: raise, or return a value
Raised == [exc |-> TRUE, resp |-> None]
Returned(v) == [exc |-> FALSE, resp |-> v]

\* ShazamIORecognizer.recognize_file
recognize_file(o) ==
    IF o.exc THEN None
    ELSE IF ~truthy(o.resp) \/ o.resp.t # "dict" \/ ~dict_has(o.resp, "track") THEN None
    ELSE o.resp

----------------------------------------------------------------------------
(* The oracle's answers tried by the model *)

Track(fields) == Dict(<< <<"track", Dict(fields)>> >>)

R_T1 == Track(<< <<"key", Str("T1")>>, <<"title", Str("One")>>, <<"subtitle", Str("A")>> >>)
R_T1b == Track(<< <<"key", Num(0)>>, <<"id", Str("T1")>>, <<"title", Str("Uno")>>,
                  <<"subtitle", Str("")>>, <<"artist", Str("B")>>,
                  <<"confidence", Num((9 * Den) \div 10)>> >>)
R_T2 == Track(<< <<"key", Str("T2")>>, <<"title", Str("Two")>>, <<"subtitle", Str("C")>>,
                 <<"confidence", Str("high")>>, <<"score", Num(90 * Den)>> >>)
R_NoTitle == Track(<< <<"key", Str("T1")>>, <<"subtitle", Str("A")>> >>)
R_NoArtist == Track(<< <<"key", Str("T2")>>, <<"title", Str("Two")>>, <<"subtitle", Str("")>> >>)
R_NoId == Track(<< <<"key", Str("")>>, <<"title", Str("One")>>, <<"subtitle", Str("A")>> >>)
R_EmptyTrack == Track(<<>>)
R_Over == Track(<< <<"key", Str("T2")>>, <<"title", Str("Two")>>, <<"subtitle", Str("C")>>,
                   <<"probability", Num(150 * Den)>> >>)
R_Neg == Track(<< <<"key", Str("T1")>>, <<"title", Str("One")>>, <<"subtitle", Str("A")>>,
                  <<"score", Num(0 - Den \div 2)>> >>)
R_BadTrack == Dict(<< <<"track", Str("x")>> >>)
R_NoTrack == Dict(<< <<"matches", Dict(<<>>)>> >>)
R_Empty == Dict(<<>>)

OracleOutcomes ==
    {Raised, Returned(None), Returned(R_Empty), Returned(R_NoTrack)} \cup
    {Returned(r) : r \in {R_T1, R_T1b, R_T2, R_NoTitle, R_NoArtist, R_NoId, R_EmptyTrack,
                          R_Over, R_Neg, R_BadTrack}}

----------------------------------------------------------------------------
(* pipeline.run_pipeline: helpers *)

batch == 40

\* format(x, ".2f"): x in ticks to hundredths of a second, round half even
fmt2(x) ==
    LET q == (x * 100) \div Unit
        r == (x * 100) % Unit
    IN IF 2 * r < Unit THEN q
       ELSE IF 2 * r > Unit THEN q + 1
       ELSE IF q % 2 = 0 THEN q ELSE q + 1

\* variant: the key leaves out the start of the window
chunk_key_nostart(src_hash, start, dur, sample_rate) == <<src_hash, 0, fmt2(dur), sample_rate>>

\* chunk_key of process_one
chunk_key(src_hash, start, dur, sample_rate) == <<src_hash, fmt2(start), fmt2(dur), sample_rate>>

\* variant: one slot too many
new_semaphore_extra(max_parallel) == max_parallel + 1

\* asyncio.Semaphore(max_parallel)
new_semaphore(max_parallel) == max_parallel

\* variant: the slot is not given back
sem_release_none(value) == value

\* leaving "async with sem"
sem_release(value) == value + 1

\* index of tid in tracks, 0 when tracks.get(tid) is None
find_track(trk, tid) ==
    IF \E i \in 1..Len(trk) : trk[i].shazam_track_id = tid
    THEN CHOOSE i \in 1..Len(trk) : trk[i].shazam_track_id = tid
    ELSE 0

\* variant: the guard forgets the title
skip_response_notitle(resp) ==
    \/ ~truthy(resp)
    \/ ~truthy(extract_track_id(resp))
    \/ ~truthy(extract_artist_title(resp)[1])

\* the guard before the aggregation
skip_response(resp) ==
    \/ ~truthy(resp)
    \/ ~truthy(extract_track_id(resp))
    \/ ~truthy(extract_artist_title(resp)[1])
    \/ ~truthy(extract_artist_title(resp)[2])

\* variant: saturation at four hits
computed_four(support) == Min(Den, (support * Den) \div 4)

\* computed = min(1.0, support / 3.0)
computed(support) == Min(Den, (support * Den) \div 3)

\* a new aggregate
new_track(tid, start, resp) ==
    [shazam_track_id |-> tid,
     artist |-> extract_artist_title(resp)[1],
     title |-> extract_artist_title(resp)[2],
     confidence_max |-> IF extract_confidence(resp) # None THEN extract_confidence(resp).n ELSE 0,
     support |-> 1,
     first_seen_sec |-> start,
     last_seen_sec |-> start]

\* variant: first and last seen are mixed up in the update
upsert_swapped(trk, tid, start, resp) ==
    LET k == find_track(trk, tid)
    IN IF k = 0 THEN Append(trk, new_track(tid, start, resp))
       ELSE [trk EXCEPT ![k] = [@ EXCEPT !.support = @ + 1,
                                         !.first_seen_sec = Max(@, start),
                                         !.last_seen_sec = Min(@, start)]]

\* variant: the update works on a stale copy and writes a fresh aggregate back
upsert_fresh(trk, tid, start, resp) ==
    LET k == find_track(trk, tid)
    IN IF k = 0 THEN Append(trk, new_track(tid, start, resp))
       ELSE [trk EXCEPT ![k] = new_track(tid, start, resp)]

\* variant: the update keeps the latest confidence, not the largest
upsert_latest(trk, tid, start, resp) ==
    LET k == find_track(trk, tid)
    IN IF k = 0 THEN Append(trk, new_track(tid, start, resp))
       ELSE [trk EXCEPT ![k] =
                [@ EXCEPT !.support = @ + 1,
                          !.first_seen_sec = Min(@, start),
                          !.last_seen_sec = Max(@, start),
                          !.confidence_max = IF extract_confidence(resp) # None
                                             THEN extract_confidence(resp).n ELSE @]]

\* the creation or update of tracks[tid], before the computed confidence
upsert(trk, tid, start, resp) ==
    LET raw_conf == extract_confidence(resp)
        k == find_track(trk, tid)
    IN IF k = 0
       THEN Append(trk, new_track(tid, start, resp))
       ELSE [trk EXCEPT ![k] =
                [@ EXCEPT !.support = @ + 1,
                          !.first_seen_sec = Min(@, start),
                          !.last_seen_sec = Max(@, start),
                          !.confidence_max = IF raw_conf # None THEN Max(@, raw_conf.n) ELSE @]]

\* the part of process_one after the cache and the oracle
aggregate(trk, start, resp) ==
    IF skip_response(resp) THEN trk
    ELSE LET tid == extract_track_id(resp).s
             t1 == upsert(trk, tid, start, resp)
             k == find_track(t1, tid)
         IN [t1 EXCEPT ![k].confidence_max = Max(@, computed(t1[k].support))]

\* variant: the sort ignores the support
sort_key_conf(agg) == <<0 - agg.confidence_max, 0>>

\* the sort key of the report
sort_key(agg) == <<0 - agg.confidence_max, 0 - agg.support>>

key_less(x, y) == x[1] < y[1] \/ (x[1] = y[1] /\ x[2] < y[2])

\* sorted(..., key=sort_key): stable, ascending in the key
RECURSIVE insert_sorted(_, _, _)
insert_sorted(out, x, i) ==
    IF i > Len(out) THEN Append(out, x)
    ELSE IF key_less(sort_key(x), sort_key(out[i]))
         THEN SubSeq(out, 1, i - 1) \o <<x>> \o SubSeq(out, i, Len(out))
    ELSE insert_sorted(out, x, i + 1)

RECURSIVE sorted_from(_, _, _)
sorted_from(trk, i, out) ==
    IF i > Len(trk) THEN out
    ELSE sorted_from(trk, i + 1, insert_sorted(out, trk[i], 1))

sorted_tracks(trk) == sorted_from(trk, 1, <<>>)

\* round(x, 3): 1/Den to thousandths
round3(n) == (n * 1000 * 2 + Den) \div (2 * Den)

report_row(agg) ==
    [artist |-> agg.artist,
     title |-> agg.title,
     shazam_track_id |-> agg.shazam_track_id,
     confidence |-> round3(agg.confidence_max),
     support |-> agg.support,
     first_seen_sec |-> agg.first_seen_sec \div Unit,
     last_seen_sec |-> agg.last_seen_sec \div Unit]

report_rows(trk) == [i \in 1..Len(trk) |-> report_row(sorted_tracks(trk)[i])]

----------------------------------------------------------------------------
(* pipeline.run_pipeline: the run *)

Tasks == 1..Len(chunks)
start_of(i) == chunks[i][1]
dur_of(i) == chunks[i][2]
key_of(i) == chunk_key(cfg.src_hash, start_of(i), dur_of(i), cfg.sample_rate)

\* variant: every remaining coroutine is handed to one asyncio.gather
InBatchAll(i) == b < i

\* the tasks handed to the current asyncio.gather
InBatch(i) == b < i /\ i <= b + batch

NoLast == [idx |-> 0, resp |-> None, cached |-> FALSE]

Idle ==
    /\ chunks = <<>> /\ run = 1 /\ main = "start" /\ b = 0 /\ pc = <<>> /\ sem = 0
    /\ tracks = <<>> /\ rows = <<>> /\ calls = <<>> /\ applied = {} /\ last = NoLast

Config(duration, chunk_seconds, overlap_seconds, max_parallel) ==
    [duration |-> duration, chunk_seconds |-> chunk_seconds,
     overlap_seconds |-> overlap_seconds, max_parallel |-> max_parallel,
     sample_rate |-> 16000, src_hash |-> 1]

\* durations of the modelled runs: 0 and every even number k of seconds less one tick
RunDurations == {0} \cup {k * Unit - 1 : k \in {j \in 1..MaxDur : j % 2 = 0}}

RunConfigs ==
    {Config(d, cs, os, mp) : d \in RunDurations, cs \in {0, RunChunk},
                             os \in 0..RunOverlap, mp \in 1..MaxParallel}

PlanConfigs ==
    {Config(d, cs, os, 1) : d \in 0..MaxDur * Unit, cs \in 0..MaxChunk, os \in 0..MaxOverlap}

Init ==
    /\ cfg \in RunConfigs
    /\ store = EmptyStore
    /\ Idle
    /\ lastPut = {} /\ got = NoLast

\* run_pipeline up to the batch loop
Begin ==
    /\ main = "start"
    /\ chunks' = build_chunks(cfg.duration, cfg.chunk_seconds, cfg.overlap_seconds)
    /\ sem' = new_semaphore(cfg.max_parallel)
    /\ tracks' = <<>>
    /\ pc' = [i \in 1..Len(chunks') |-> "new"]
    /\ calls' = [i \in 1..Len(chunks') |-> 0]
    /\ b' = 0
    /\ main' = "loop"
    /\ UNCHANGED <<cfg, store, run, rows, applied, last, lastPut, got>>

\* for b in range(0, len(coros), batch): enter asyncio.gather
Gather ==
    /\ main = "loop"
    /\ b < Len(chunks)
    /\ main' = "gather"
    /\ UNCHANGED <<cfg, chunks, store, run, b, pc, sem, tracks, rows, calls, applied, last,
                   lastPut, got>>

\* asyncio.gather returns once every task of the batch has finished
GatherDone ==
    /\ main = "gather"
    /\ \A i \in Tasks : InBatch(i) => pc[i] = "done"
    /\ b' = b + batch
    /\ main' = "loop"
    /\ UNCHANGED <<cfg, chunks, store, run, pc, sem, tracks, rows, calls, applied, last,
                   lastPut, got>>

\* positions of a process_one task that ended by raising
Failed(i) == pc[i] \in {"get_error", "wav_error", "put_error", "attr_error"}

\* what the collaborators of process_one can do besides succeeding:
\* sqlite3 raises in get_chunk, ffmpeg fails in extract_chunk_wav
StartFaults == {"none", "get", "wav"}
\* sqlite3 raises in put_chunk
PutFaults == {"none", "put"}

\* the collaborators fail for the last MaxFaulty windows of a plan only
Faultable(i) == i > Len(chunks) - MaxFaulty

\* lines 85-118 of process_one for the response resp of window i
Handle(i, resp, cached) ==
    /\ last' = [idx |-> i, resp |-> resp, cached |-> cached]
    /\ IF raises_attribute_error(resp)
       THEN /\ pc' = [pc EXCEPT ![i] = "attr_error"]
            /\ UNCHANGED <<tracks, applied>>
       ELSE /\ tracks' = aggregate(tracks, start_of(i), resp)
            /\ applied' = applied \cup {[idx |-> i, start |-> start_of(i), resp |-> resp]}
            /\ pc' = [pc EXCEPT ![i] = "done"]

\* process_one from its first line to its first suspension (or to its end)
Start(i, f) ==
    /\ main = "gather"
    /\ InBatch(i)
    /\ pc[i] = "new"
    /\ \A j \in Tasks : (InBatch(j) /\ j < i) => pc[j] # "new"
    /\ f # "none" => Faultable(i)
    /\ LET resp == get_chunk(store, key_of(i))
       IN CASE f = "get" ->
                 /\ pc' = [pc EXCEPT ![i] = "get_error"]
                 /\ UNCHANGED <<sem, calls, tracks, applied, last>>
            [] f = "wav" ->
                 /\ resp = None
                 /\ pc' = [pc EXCEPT ![i] = "wav_error"]
                 /\ UNCHANGED <<sem, calls, tracks, applied, last>>
            [] f = "none" ->
                 IF resp = None
                 THEN /\ IF sem > 0
                         THEN /\ sem' = sem - 1
                              /\ pc' = [pc EXCEPT ![i] = "recognize"]
                              /\ calls' = [calls EXCEPT ![i] = @ + 1]
                         ELSE /\ pc' = [pc EXCEPT ![i] = "acquire"]
                              /\ UNCHANGED <<sem, calls>>
                      /\ UNCHANGED <<tracks, applied, last>>
                 ELSE /\ Handle(i, resp, TRUE)
                      /\ UNCHANGED <<sem, calls>>
    /\ UNCHANGED <<cfg, chunks, store, run, main, b, rows, lastPut, got>>

\* a task suspended in "async with sem" gets a slot and calls the oracle
Acquire(i) ==
    /\ main = "gather"
    /\ pc[i] = "acquire"
    /\ sem > 0
    /\ sem' = sem - 1
    /\ pc' = [pc EXCEPT ![i] = "recognize"]
    /\ calls' = [calls EXCEPT ![i] = @ + 1]
    /\ UNCHANGED <<cfg, chunks, store, run, main, b, tracks, rows, applied, last, lastPut, got>>

\* the oracle call resolves with outcome o; process_one runs to its end
Recognized(i, o, f) ==
    /\ main = "gather"
    /\ pc[i] = "recognize"
    /\ f # "none" => Faultable(i)
    /\ sem' = sem_release(sem)
    /\ LET resp == recognize_file(o)
       IN IF f = "put"
          THEN /\ pc' = [pc EXCEPT ![i] = "put_error"]
               /\ UNCHANGED <<store, tracks, applied, last>>
          ELSE /\ store' = put_chunk(store, key_of(i), resp)
               /\ Handle(i, resp, FALSE)
    /\ UNCHANGED <<cfg, chunks, run, main, b, rows, calls, lastPut, got>>

\* a task of the batch has raised: asyncio.gather raises in run_pipeline, which
\* ends without a report; asyncio.run cancels the tasks still pending
Abort ==
    /\ main = "gather"
    /\ \E i \in Tasks : InBatch(i) /\ Failed(i)
    /\ main' = "error"
    /\ pc' = [i \in Tasks |-> IF InBatch(i) /\ pc[i] \in {"new", "acquire", "recognize"}
                              THEN "cancelled" ELSE pc[i]]
    /\ sem' = sem + Cardinality({i \in Tasks : pc[i] = "recognize"})
    /\ UNCHANGED <<cfg, chunks, store, run, b, tracks, rows, calls, applied, last, lastPut, got>>

\* the rows of the report, after the batch loop
Report ==
    /\ main = "loop"
    /\ b >= Len(chunks)
    /\ rows' = report_rows(tracks)
    /\ main' = "done"
    /\ UNCHANGED <<cfg, chunks, store, run, b, pc, sem, tracks, calls, applied, last,
                   lastPut, got>>

\* the pipeline is run again over the same source with the same cache file
Rerun ==
    /\ main = "done"
    /\ run = 1
    /\ run' = 2
    /\ chunks' = <<>> /\ main' = "start" /\ b' = 0 /\ pc' = <<>> /\ sem' = 0
    /\ tracks' = <<>> /\ rows' = <<>> /\ calls' = <<>> /\ applied' = {} /\ last' = NoLast
    /\ UNCHANGED <<cfg, store, lastPut, got>>

Next ==
    \/ Begin
    \/ Gather
    \/ GatherDone
    \/ \E i \in Tasks, f \in StartFaults : Start(i, f)
    \/ \E i \in Tasks : Acquire(i)
    \/ \E i \in Tasks, o \in OracleOutcomes, f \in PutFaults : Recognized(i, o, f)
    \/ Abort
    \/ Report
    \/ Rerun

Spec == Init /\ [][Next]_vars

----------------------------------------------------------------------------
(* build_chunks alone, over a wider range of arguments *)

InitPlan ==
    /\ cfg \in PlanConfigs
    /\ store = EmptyStore
    /\ Idle
    /\ lastPut = {} /\ got = NoLast

Plan ==
    /\ main = "start"
    /\ chunks' = build_chunks(cfg.duration, cfg.chunk_seconds, cfg.overlap_seconds)
    /\ main' = "planned"
    /\ UNCHANGED <<cfg, store, run, b, pc, sem, tracks, rows, calls, applied, last, lastPut, got>>

NextPlan == Plan

SpecPlan == InitPlan /\ [][NextPlan]_vars

----------------------------------------------------------------------------
(* Store alone, called through get_chunk and put_chunk *)

StoreKeys == {chunk_key(1, 0, d * Unit, 16000) : d \in 2..3}

Payloads == {None, R_Empty, R_NoTrack, R_EmptyTrack, R_T1, R_T2}

InitStore ==
    /\ cfg = Config(0, RunChunk, 0, 1)
    /\ store = EmptyStore
    /\ Idle
    /\ lastPut = {} /\ got = NoLast

\* store.put_chunk(k, v)
Put(k, v) ==
    /\ store' = put_chunk(store, k, v)
    /\ lastPut' = {p \in lastPut : p.chunk_key # k} \cup {[chunk_key |-> k, payload |-> v]}
    /\ UNCHANGED <<cfg, chunks, run, main, b, pc, sem, tracks, rows, calls, applied, last, got>>

\* store.get_chunk(k)
Get(k) ==
    /\ got' = [idx |-> 1, resp |-> get_chunk(store, k), cached |-> TRUE, chunk_key |-> k]
    /\ UNCHANGED <<cfg, chunks, store, run, main, b, pc, sem, tracks, rows, calls, applied,
                   last, lastPut>>

NextStore ==
    \/ \E k \in StoreKeys, v \in Payloads : Put(k, v)
    \/ \E k \in StoreKeys : Get(k)

SpecStore == InitStore /\ [][NextStore]_vars

----------------------------------------------------------------------------
(* A run of more than one batch, over a cache left by an earlier run *)

\* probe_duration_seconds for a plan of batch + 2 windows
LongDuration == ((batch + 1) * Max(1, RunChunk - RunOverlap) + 2) * Unit

\* the windows the earlier run has left without a cache row
Uncached == {batch, batch + 1, batch + 2}

\* the cache after put_chunk of a match for every window but those in miss
\* (the keys of a plan differ, so the rows of the single puts add up)
warm_store(c, plan, miss) ==
    UNION {put_chunk(EmptyStore, chunk_key(c.src_hash, plan[i][1], plan[i][2], c.sample_rate), R_T1) :
              i \in (1..Len(plan)) \ miss}

InitBatch ==
    /\ cfg \in {Config(LongDuration, RunChunk, RunOverlap, mp) : mp \in 1..MaxParallel}
    /\ store = warm_store(cfg, build_chunks(cfg.duration, cfg.chunk_seconds, cfg.overlap_seconds),
                          Uncached)
    /\ Idle
    /\ lastPut = {} /\ got = NoLast

\* the answers of the oracle in this run: a failure and two matches
BatchOutcomes == {Raised, Returned(R_T1), Returned(R_T2)}

NextBatch ==
    \/ Begin
    \/ Gather
    \/ GatherDone
    \/ \E i \in Tasks, f \in StartFaults : Start(i, f)
    \/ \E i \in Tasks : Acquire(i)
    \/ \E i \in Tasks, o \in BatchOutcomes, f \in PutFaults : Recognized(i, o, f)
    \/ Abort
    \/ Report

SpecBatch == InitBatch /\ [][NextBatch]_vars

----------------------------------------------------------------------------
(* Properties *)

InOracle == {i \in DOMAIN pc : pc[i] = "recognize"}

\* C1: in every state of a run the number of tasks inside recognize_file is at
\* most max_parallel.
ConcurrencyBound == Cardinality(InOracle) <= cfg.max_parallel

\* max_parallel calls in flight while a further task waits for a slot
ConcurrencyBoundWitness ==
    /\ cfg.max_parallel >= 2
    /\ Cardinality(InOracle) = cfg.max_parallel
    /\ \E i \in DOMAIN pc : pc[i] = "acquire"

\* C2: the second run over the same source with the same cache issues no
\* oracle call, whatever the outcomes of the first run were.
RerunIssuesNoCall == run = 2 => \A i \in DOMAIN calls : calls[i] = 0

\* C3: get_chunk on a key never written returns a result that differs from the
\* one it returns after put_chunk(k, no match).
MissDiffersFromNegative ==
    \A p \in lastPut :
        p.payload = None => get_chunk(store, p.chunk_key) # get_chunk(EmptyStore, p.chunk_key)

\* C4: get_chunk(k) returns exactly the payload of the most recent
\* put_chunk(k, v), whatever v is and whatever was put under other keys.
RoundTripLastWrite == \A p \in lastPut : get_chunk(store, p.chunk_key) = p.payload

\* C5: in one run every window leads to at most one oracle call, and no two
\* windows of the plan have the same chunk key.
AtMostOneSubmission ==
    /\ \A i \in DOMAIN calls : calls[i] <= 1
    /\ \A i, j \in 1..Len(chunks) : i # j => key_of(i) # key_of(j)

\* a failed or empty call has finished without a second call, in a plan of
\* several windows
AtMostOneSubmissionWitness ==
    /\ Len(chunks) >= 2
    /\ \E i \in DOMAIN calls :
          calls[i] = 1 /\ pc[i] = "done" /\ last = [idx |-> i, resp |-> None, cached |-> FALSE]

\* a response carries a usable track id, artist and title
Usable(resp) ==
    /\ resp.t = "dict"
    /\ dict_has(resp, "track")
    /\ LET track == dict_get(resp, "track")
       IN /\ track.t = "dict"
          /\ \E i \in 1..Len(TrackIdFields) : truthy(dict_get(track, TrackIdFields[i]))
          /\ truthy(dict_get(track, "subtitle")) \/ truthy(dict_get(track, "artist"))
          /\ truthy(dict_get(track, "title"))

\* the usable results applied in this run for the track id of result r
ResultsFor(r) ==
    {q \in applied : Usable(q.resp) /\ extract_track_id(q.resp) = extract_track_id(r.resp)}

SetMin(S) == CHOOSE x \in S : \A y \in S : x <= y
SetMax(S) == CHOOSE x \in S : \A y \in S : x >= y

\* min(1, n/3), in 1/Den
DerivedConfidence(n) == IF n >= 3 THEN Den ELSE (n * Den) \div 3

ExpectedAggregate(r) ==
    LET R == ResultsFor(r)
        confs == {extract_confidence(q.resp).n : q \in {x \in R : extract_confidence(x.resp) # None}}
    IN [support |-> Cardinality(R),
        first_seen_sec |-> SetMin({q.start : q \in R}),
        last_seen_sec |-> SetMax({q.start : q \in R}),
        confidence_max |-> SetMax({DerivedConfidence(Cardinality(R))} \cup confs)]

\* C6: once all chunk results of a run are applied, every track id with a usable
\* result has an aggregate whose support is the number of those results, whose
\* first/last seen are the least/greatest of their window starts and whose
\* confidence_max is the greatest of min(1, support/3) and their confidences.
AggregationResult ==
    main = "done" =>
        \A r \in applied :
            Usable(r.resp) =>
                LET k == find_track(tracks, extract_track_id(r.resp).s)
                    e == ExpectedAggregate(r)
                IN /\ k # 0
                   /\ tracks[k].support = e.support
                   /\ tracks[k].first_seen_sec = e.first_seen_sec
                   /\ tracks[k].last_seen_sec = e.last_seen_sec
                   /\ tracks[k].confidence_max = e.confidence_max

\* three results for T1 without oracle confidence: support 3, confidence 1.0
AggregationResultWitness ==
    /\ main = "done"
    /\ Cardinality(applied) = 3
    /\ \A r \in applied : r.resp = R_T1
    /\ Len(tracks) = 1
    /\ tracks[1].support = 3
    /\ tracks[1].confidence_max = Den
    /\ tracks[1].first_seen_sec = 0
    /\ tracks[1].last_seen_sec = start_of(3)

AggOf(row) == tracks[find_track(tracks, row.shazam_track_id)]

\* C7: the report rows are the aggregates ordered by confidence_max descending,
\* then support descending, then by the order of insertion into tracks.
Ranking ==
    main = "done" =>
        /\ Len(rows) = Len(tracks)
        /\ \A k \in 1..Len(tracks) : \E i \in 1..Len(rows) : rows[i] = report_row(tracks[k])
        /\ \A i, j \in 1..Len(rows) :
              i < j =>
                LET x == AggOf(rows[i])
                    y == AggOf(rows[j])
                IN \/ x.confidence_max > y.confidence_max
                   \/ x.confidence_max = y.confidence_max /\ x.support > y.support
                   \/ /\ x.confidence_max = y.confidence_max
                      /\ x.support = y.support
                      /\ find_track(tracks, rows[i].shazam_track_id)
                           < find_track(tracks, rows[j].shazam_track_id)

\* equal confidence: the track inserted later is reported first for its support
RankingWitness ==
    /\ main = "done"
    /\ Len(tracks) = 2
    /\ tracks[1].confidence_max = tracks[2].confidence_max
    /\ tracks[1].support < tracks[2].support
    /\ rows[1].shazam_track_id = tracks[2].shazam_track_id

\* C8: a response without a usable track id, artist or title leaves the
\* aggregate map unchanged, and no aggregate ever has support 0.
UnusableNeverAggregated ==
    [][/\ \A i \in DOMAIN pc \cap DOMAIN pc' :
             (pc[i] # "done" /\ pc'[i] = "done" /\ ~Usable(last'.resp)) => tracks' = tracks
       /\ \A k \in 1..Len(tracks') : tracks'[k].support >= 1]_vars

\* a cached response without a title was read while an aggregate exists
UnusableNeverAggregatedWitness ==
    /\ last.idx # 0
    /\ last.cached
    /\ last.resp = R_NoTitle
    /\ pc[last.idx] = "done"
    /\ tracks # <<>>

Step == Max(1, cfg.chunk_seconds - cfg.overlap_seconds)

\* the window the specified algorithm builds for k = 0, 1, 2, ...
Window(k) == <<k * Step * Unit, Min(cfg.chunk_seconds * Unit, cfg.duration - k * Step * Unit)>>

\* C9: the starts of the planned windows increase strictly, no length exceeds
\* the chunk length and no length is below one second.
PlanShape ==
    (main = "planned" /\ cfg.duration > 0 /\ cfg.chunk_seconds >= 1) =>
        /\ \A k \in 1..Len(chunks) - 1 : chunks[k][1] < chunks[k + 1][1]
        /\ \A k \in 1..Len(chunks) :
              chunks[k][2] <= cfg.chunk_seconds * Unit /\ ~(chunks[k][2] < Unit)

\* a plan of several windows that ends with a window shorter than the chunk length
PlanShapeWitness ==
    /\ main = "planned"
    /\ Len(chunks) >= 3
    /\ chunks[Len(chunks)][2] < cfg.chunk_seconds * Unit
    /\ chunks[1][2] = cfg.chunk_seconds * Unit

\* C10 as stated: the plan is Window(0), Window(1), ... up to but excluding the
\* first window shorter than one second, so that a window of exactly one second
\* is emitted; duration <= 1 gives the empty plan.
PlanStopsBelowOneSecond ==
    main = "planned" =>
        /\ cfg.duration > Unit =>
              /\ \A k \in 1..Len(chunks) : chunks[k] = Window(k - 1) /\ ~(chunks[k][2] < Unit)
              /\ Window(Len(chunks))[2] < Unit
        /\ cfg.duration <= Unit => chunks = <<>>

\* C10 amended: the plan is Window(0), Window(1), ... up to but excluding the
\* first window of one second or less; duration <= 1 gives the empty plan and
\* overlap >= chunk length gives step 1.
PlanStopsAtOneSecond ==
    main = "planned" =>
        /\ \A k \in 1..Len(chunks) : chunks[k] = Window(k - 1) /\ chunks[k][2] > Unit
        /\ Window(Len(chunks))[2] <= Unit
        /\ cfg.duration <= Unit => chunks = <<>>
        /\ (cfg.overlap_seconds >= cfg.chunk_seconds /\ Len(chunks) >= 2) => chunks[2][1] = Unit

\* the window after the last one would be exactly one second long
PlanStopsAtOneSecondWitness ==
    /\ main = "planned"
    /\ Len(chunks) >= 1
    /\ Window(Len(chunks))[2] = Unit

\* C11: a failure of extract_chunk_wav for one window skips that window only:
\* the run does not end in an error, and when it is over every other window has
\* been processed.
MaterializationFailureIsolated ==
    (/\ \E i \in DOMAIN pc : pc[i] = "wav_error"
     /\ \A i \in DOMAIN pc : pc[i] \notin {"get_error", "put_error", "attr_error"})
    => /\ main # "error"
       /\ main = "done" => \A i \in DOMAIN pc : pc[i] \in {"done", "wav_error"}

\* C12: a storage error in get_chunk or put_chunk never ends a task, and the run
\* does not end in an error because of it.
CacheErrorsNeverAbort ==
    /\ \A i \in DOMAIN pc : pc[i] \notin {"get_error", "put_error"}
    /\ (\A i \in DOMAIN pc : pc[i] \notin {"wav_error", "attr_error"}) => main # "error"

\* C13: a run with a non-positive chunk length ends in an error before any
\* window is handled and produces no report.
InvalidChunkAborts ==
    cfg.chunk_seconds <= 0 =>
        /\ main # "done"
        /\ \A i \in DOMAIN pc : pc[i] = "new"

\* C14: whatever the oracle answers, the run never ends in an error, and when
\* it has reached the report every window has been processed and every
\* semaphore slot is free.
RunCompletesWithReport ==
    /\ main # "error"
    /\ main = "done" => /\ \A i \in DOMAIN pc : pc[i] = "done"
                        /\ sem = cfg.max_parallel

\* C16: once the semaphore exists, the free slots plus the tasks inside the
\* oracle call are max_parallel, and a task holds no slot in any other position.
OnlyOracleThrottled ==
    main # "start" => sem + Cardinality(InOracle) = cfg.max_parallel

\* every slot is taken while a further task of the batch has passed the cache
\* lookup and the slice extraction and has not called the oracle yet
OnlyOracleThrottledWitness ==
    /\ main = "gather"
    /\ sem = 0
    /\ \E i \in DOMAIN pc : InBatch(i) /\ pc[i] = "acquire" /\ calls[i] = 0
    /\ \E j \in DOMAIN pc : InBatch(j) /\ pc[j] = "recognize" /\ calls[j] = 1

\* the group of 40 a window belongs to
GroupOf(i) == (i - 1) \div batch

Started(i) == pc[i] # "new"
Finished(i) == pc[i] \in {"done", "cancelled", "get_error", "wav_error", "put_error", "attr_error"}

\* C15: windows start in plan order; no window of a later group of 40 has
\* started unless every window of all earlier groups has finished; at most 40
\* windows are started and not finished.
BoundedBatches ==
    /\ \A i, j \in DOMAIN pc : (i < j /\ Started(j)) => Started(i)
    /\ \A i, j \in DOMAIN pc : (GroupOf(j) < GroupOf(i) /\ Started(i)) => Finished(j)
    /\ Cardinality({i \in DOMAIN pc : Started(i) /\ ~Finished(i)}) <= batch

\* a window of the second group is inside the oracle call, in a plan of more
\* than 40 windows, after the last window of the first group went through the
\* oracle as well
BoundedBatchesWitness ==
    /\ Len(chunks) > batch
    /\ main = "gather"
    /\ b = batch
    /\ pc[batch + 1] = "recognize"
    /\ calls[batch] = 1

WellFormed(agg) ==
    /\ agg.support >= 1
    /\ agg.first_seen_sec <= agg.last_seen_sec
    /\ agg.confidence_max >= DerivedConfidence(agg.support)

\* C17: in every state every aggregate has support >= 1, first_seen_sec <=
\* last_seen_sec and confidence_max >= min(1, support/3), and no step of a run
\* removes an aggregate from the track map.
AggregateInvariant ==
    /\ [](\A k \in 1..Len(tracks) : WellFormed(tracks[k]))
    /\ [][run' = run =>
             \A k \in 1..Len(tracks) : find_track(tracks', tracks[k].shazam_track_id) # 0]_vars

\* an aggregate updated three times, seen at different windows, next to nothing
\* else: its confidence has reached 1 by the support alone
AggregateInvariantWitness ==
    \E k \in 1..Len(tracks) :
        /\ tracks[k].support = 3
        /\ tracks[k].first_seen_sec < tracks[k].last_seen_sec
        /\ tracks[k].confidence_max = Den
        /\ \A q \in applied : extract_confidence(q.resp) = None

\* the first numeric figure among the confidence fields of the oracle's track
ConfidenceFigure(resp) ==
    LET track == track_of(resp)
        nums == {i \in 1..Len(ConfidenceFields) : dict_get(track, ConfidenceFields[i]).t = "num"}
    IN IF ~truthy(track) \/ nums = {} THEN None
       ELSE dict_get(track, ConfidenceFields[SetMin(nums)])

\* the usable results applied to the aggregate agg
AppliedTo(agg) ==
    {q \in applied : Usable(q.resp) /\ extract_track_id(q.resp).s = agg.shazam_track_id}

\* the confidences above 1 extracted from the results applied to agg
OverOne(agg) ==
    {extract_confidence(q.resp).n :
        q \in {x \in AppliedTo(agg) : /\ extract_confidence(x.resp) # None
                                      /\ extract_confidence(x.resp).n > Den}}

\* C18 as stated: every extracted confidence, every confidence_max and every
\* report row's confidence is within [0, 1].
ConfidenceRange ==
    /\ \A q \in applied :
          extract_confidence(q.resp) # None =>
              (0 <= extract_confidence(q.resp).n /\ extract_confidence(q.resp).n <= Den)
    /\ \A k \in 1..Len(tracks) : 0 <= tracks[k].confidence_max /\ tracks[k].confidence_max <= Den
    /\ \A i \in 1..Len(rows) : 0 <= rows[i].confidence /\ rows[i].confidence <= 1000

\* C18 amended: a figure v in (1, 100] is divided by 100 and any other v is
\* used as-is, so the extracted confidence is within [0, 1] exactly when v is
\* within [0, 100]; confidence_max and the row's confidence are never negative,
\* and are above 1 only when a figure above 100 was applied to the track, in
\* which case confidence_max is the largest such figure.
ConfidenceRangeAmended ==
    /\ \A q \in applied :
          LET v == ConfidenceFigure(q.resp)
              c == extract_confidence(q.resp)
          IN IF v = None THEN c = None
             ELSE /\ c.t = "num"
                  /\ c.n = (IF Den < v.n /\ v.n <= 100 * Den THEN v.n \div 100 ELSE v.n)
                  /\ (0 <= c.n /\ c.n <= Den) <=> (0 <= v.n /\ v.n <= 100 * Den)
    /\ \A k \in 1..Len(tracks) :
          /\ tracks[k].confidence_max >= 0
          /\ OverOne(tracks[k]) = {} => tracks[k].confidence_max <= Den
          /\ OverOne(tracks[k]) # {} => tracks[k].confidence_max = SetMax(OverOne(tracks[k]))
    /\ \A i \in 1..Len(rows) :
          /\ rows[i].confidence = round3(AggOf(rows[i]).confidence_max)
          /\ rows[i].confidence >= 0
          /\ OverOne(AggOf(rows[i])) = {} => rows[i].confidence <= 1000

\* the report holds a row whose confidence 0.9 comes from the figure 90
ConfidenceRangeAmendedWitness ==
    /\ main = "done"
    /\ \E i \in 1..Len(rows) :
          /\ rows[i].confidence = 900
          /\ rows[i].support = 1
          /\ \E q \in AppliedTo(AggOf(rows[i])) : ConfidenceFigure(q.resp) = Num(90 * Den)

\* C19: under every interleaving of the tasks the support of every aggregate is
\* the number of usable results applied for its track id, and every usable
\* result applied has its aggregate.
NoLostUpdate ==
    /\ \A k \in 1..Len(tracks) : tracks[k].support = Cardinality(AppliedTo(tracks[k]))
    /\ \A q \in applied : Usable(q.resp) => find_track(tracks, extract_track_id(q.resp).s) # 0
    /\ \A k, l \in 1..Len(tracks) :
          tracks[k].shazam_track_id = tracks[l].shazam_track_id => k = l

\* two oracle calls for the same track were in flight together and completed
\* against the plan order; both are counted
NoLostUpdateWitness ==
    /\ last.idx # 0 /\ ~last.cached /\ Usable(last.resp)
    /\ \E q \in applied :
          /\ q.idx > last.idx
          /\ calls[q.idx] = 1
          /\ Usable(q.resp)
          /\ extract_track_id(q.resp) = extract_track_id(last.resp)
          /\ tracks[find_track(tracks, extract_track_id(q.resp).s)].support = 2

\* the orders in which the results of the set S can be applied
Orders(S) ==
    {f \in [1..Cardinality(S) -> S] : \A i, j \in 1..Cardinality(S) : f[i] = f[j] => i = j}

\* the track map after the results of ord have been applied in that order
RECURSIVE apply_order(_, _, _)
apply_order(ord, i, trk) ==
    IF i > Len(ord) THEN trk
    ELSE apply_order(ord, i + 1, aggregate(trk, ord[i].start, ord[i].resp))

\* an aggregate without its texts
Figures(agg) ==
    [shazam_track_id |-> agg.shazam_track_id, support |-> agg.support,
     first_seen_sec |-> agg.first_seen_sec, last_seen_sec |-> agg.last_seen_sec,
     confidence_max |-> agg.confidence_max]

Tied(trk, i) == \E j \in 1..Len(trk) : j # i /\ sort_key(trk[j]) = sort_key(trk[i])

\* C20: applying the results of a finished run in any other order gives every track the
\* same support, first_seen_sec, last_seen_sec and confidence_max, and a report
\* with the same rows in the same places but for rows tied on (confidence_max,
\* support).
OrderIndependence ==
    main = "done" => \A ord \in Orders(applied) :
        LET other == apply_order(ord, 1, <<>>)
        IN /\ {Figures(other[k]) : k \in 1..Len(other)} = {Figures(tracks[k]) : k \in 1..Len(tracks)}
           /\ \A i \in 1..Len(tracks) :
                 /\ sort_key(sorted_tracks(other)[i]) = sort_key(sorted_tracks(tracks)[i])
                 /\ ~Tied(sorted_tracks(tracks), i) =>
                       Figures(sorted_tracks(other)[i]) = Figures(sorted_tracks(tracks)[i])

\* the run is over with two tracks, and another order of its results gives one
\* of them another artist and title
OrderIndependenceWitness ==
    /\ main = "done"
    /\ Len(tracks) = 2
    /\ \E ord \in Orders(applied) :
          LET other == apply_order(ord, 1, <<>>)
          IN \E k \in 1..Len(other) :
                 LET mine == tracks[find_track(tracks, other[k].shazam_track_id)]
                 IN other[k].artist # mine.artist /\ other[k].title # mine.title

====
